---- MODULE Spec2Model ----
(***************************************************************************)
(* ScreenUi: the component tree, the focus search, the per-frame           *)
(* update/focus/paint cycle of Screen and the viewport scrolling of        *)
(* ScrollContainer, modelled from ScreenUi.cpp.                            *)
(*                                                                         *)
(* A component is a node number; node 1 is the Screen, 0 is the NULL       *)
(* pointer.  A tree is a record                                            *)
(*   kind   node -> "Screen" | "Container" | "ScrollContainer" |           *)
(*                  "Label" | "Button" | "Checkbox" | "List" | "Input"     *)
(*   kids   node -> the sequence components_[0..componentCount_-1]         *)
(*   addY   node -> the y given to add() (0 for the Screen)                *)
(*   h      node -> height_                                                *)
(*   items  node -> itemCount_ of a List (0 otherwise)                     *)
(*   text   node -> the characters of the buffer given to an Input         *)
(* The x coordinate is left out: every offsetChildren call of the source   *)
(* passes x = 0, so a component's x_ stays the value given to add().       *)
(* The dirty_ field of a container is left out as well: Container::dirty() *)
(* overrides Component::dirty() and nothing reads a container's dirty_.    *)
(* A character is its code 0..255.  The cursor calls of Input::paint       *)
(* (setCursorVisible, setBlink, setCursorLocation) draw nothing and are    *)
(* left out with the cursor fields of the Screen.                          *)
(***************************************************************************)
EXTENDS Integers, Sequences, FiniteSets, TLC

VARIABLES
    tree,                    \* the component tree built by the add() calls
    y_,                      \* node -> Component::y_
    dirty_,                  \* leaf -> Component::dirty_
    firstUpdateCompleted_,   \* container -> Container::firstUpdateCompleted_
    lastFocusHolder_,        \* ScrollContainer -> lastFocusHolder_
    focusHolder_,            \* Screen::focusHolder_
    focusHolderSelected_,    \* Screen::focusHolderSelected_
    cleared_,                \* Screen::cleared_
    annoyingBugWorkedAround_,\* Screen::annoyingBugWorkedAround_
    pressed_,                \* Button -> pressed_
    checked_,                \* Checkbox -> checked_
    captured_,               \* leaf -> Label::captured_
    selectedIndex_,          \* List -> selectedIndex_
    text_,                   \* Input -> the characters text_ points to
    position_,               \* Input -> position_
    selecting_,              \* Input -> selecting_
    store,                   \* the backing storage of a Container under add()
    cset,                    \* a RangeCharSet and the last call made on it
    label,                   \* a Label under setText and paint calls, and
                             \* the display row it draws on
    halted,                  \* the frame loop stopped inside a call through NULL
    since,                   \* the last repaint() of a container and the
                             \* components painted or skipped after it
    obs,                     \* what the last operation did (observation only)
    ev,                      \* the event forwarded in the last frame and the
                             \* widget state it met (observation only)
    probe,                   \* the last nextFocusHolder call and its result
    reach                    \* the focus holders the latest frames that moved
                             \* the focus in one direction ended with

vars == <<tree, y_, dirty_, firstUpdateCompleted_, lastFocusHolder_,
          focusHolder_, focusHolderSelected_, cleared_,
          annoyingBugWorkedAround_, pressed_, checked_, captured_,
          selectedIndex_, text_, position_, selecting_, store, cset,
          label, halted, since, obs, ev, probe, reach>>

NULL == 0
Garbage == -1      \* an indeterminate pointer that equals no component

\* ---------------------------------------------------------------- bounds
MaxNodes == 4      \* components below the Screen in the generated trees
MaxRows == 4       \* rows held by the ScrollContainer of the row scenes
MaxDelta == 1      \* largest |dx|, |dy| polled in one frame
MaxAdds == 256     \* add() calls made on the container under test
MaxStep == 3       \* largest |dy| polled in one frame of the widget scenes
MaxRanges == 2     \* ranges given to the RangeCharSet under test
MaxText == 3       \* longest text given to the Label under test

\* ------------------------------------------------------------ tree shape
Nodes(T) == 1..Len(T.kind)

isContainer(T, c) == T.kind[c] \in {"Screen", "Container", "ScrollContainer"}

isScroll(T, c) == T.kind[c] = "ScrollContainer"

\* an acceptsFocus that a Label answers with true as well
acceptsFocusM(T, c) ==
    T.kind[c] \in {"Button", "Checkbox", "List", "Input", "Label"}

acceptsFocus(T, c) == T.kind[c] \in {"Button", "Checkbox", "List", "Input"}

componentCount_(T, c) == Len(T.kids[c])

\* components_[i] with the source's zero-based index
components_(T, c, i) == T.kids[c][i + 1]

Leaves(T) == {c \in Nodes(T) : ~isContainer(T, c)}

Containers(T) == {c \in Nodes(T) : isContainer(T, c)}

Scrolls(T) == {c \in Nodes(T) : isScroll(T, c)}

RECURSIVE contains(_, _, _)
contains(T, c, component) ==
    \E i \in 0..(componentCount_(T, c) - 1) :
        LET k == components_(T, c, i) IN
            \/ k = component
            \/ isContainer(T, k) /\ contains(T, k, component)

\* ---------------------------------------------------------- focus search
\* the for-loop header of nextFocusHolder: start index, condition, step
loopStart(reverse, count) == IF reverse THEN count - 1 ELSE 0

\* a forward loop that stops one child early
loopCondM(reverse, i, count) == IF reverse THEN i > 0 ELSE i < count - 1

loopCond(reverse, i, count) == IF reverse THEN i > 0 ELSE i < count

loopStep(reverse, i) == IF reverse THEN i - 1 ELSE i + 1

\* the test that makes a focus-accepting leaf the result
leafResult(focusHolder, found) == focusHolder = NULL \/ found

RECURSIVE nextFocusHolderLoop(_, _, _, _, _, _)
nextFocusHolderLoop(T, c, i, focusHolder, reverse, found) ==
    IF ~loopCond(reverse, i, componentCount_(T, c))
    THEN [res |-> NULL, found |-> found]
    ELSE LET k == components_(T, c, i) IN
         IF isContainer(T, k)
         THEN LET r == nextFocusHolderLoop(T, k,
                           loopStart(reverse, componentCount_(T, k)),
                           focusHolder, reverse, found) IN
              IF r.res # NULL
              THEN r
              ELSE nextFocusHolderLoop(T, c, loopStep(reverse, i),
                                       focusHolder, reverse, r.found)
         ELSE IF acceptsFocus(T, k)
              THEN IF leafResult(focusHolder, found)
                   THEN [res |-> k, found |-> found]
                   ELSE nextFocusHolderLoop(T, c, loopStep(reverse, i),
                            focusHolder, reverse,
                            found \/ (k = focusHolder))
              ELSE nextFocusHolderLoop(T, c, loopStep(reverse, i),
                                       focusHolder, reverse, found)

\* Container::nextFocusHolder(focusHolder, reverse), called on container c
nextFocusHolder(T, c, focusHolder, reverse) ==
    nextFocusHolderLoop(T, c, loopStart(reverse, componentCount_(T, c)),
                        focusHolder, reverse, FALSE).res

\* ------------------------------------------------- trees given to add()
RECURSIVE SortedSeq(_)
SortedSeq(S) ==
    IF S = {} THEN <<>>
    ELSE LET m == CHOOSE a \in S : \A b \in S : a <= b
         IN <<m>> \o SortedSeq(S \ {m})

\* a tree from the add() calls of the host: spec[c] describes component c,
\* parent 0 marks the Screen; children keep the order of their add() calls
MkTree(spec) ==
    [kind  |-> [c \in 1..Len(spec) |-> spec[c].kind],
     kids  |-> [c \in 1..Len(spec) |->
                   SortedSeq({k \in 1..Len(spec) : spec[k].parent = c})],
     addY  |-> [c \in 1..Len(spec) |-> spec[c].y],
     h     |-> [c \in 1..Len(spec) |-> spec[c].h],
     items |-> [c \in 1..Len(spec) |-> spec[c].items],
     text  |-> [c \in 1..Len(spec) |-> spec[c].text]]

Cmp(kind, parent, y, h) ==
    [kind |-> kind, parent |-> parent, y |-> y, h |-> h, items |-> 0,
     text |-> <<>>]

\* a List with `items` entries added by addItem (List::List passes NULL to
\* Label::setText; that only affects width_, which is not part of the state)
ListCmp(parent, y, items) ==
    [kind |-> "List", parent |-> parent, y |-> y, h |-> 1, items |-> items,
     text |-> <<>>]

\* an Input constructed on a buffer holding the characters `text`
InputCmp(parent, y, text) ==
    [kind |-> "Input", parent |-> parent, y |-> y, h |-> 1, items |-> 0,
     text |-> text]

\* every ordered tree of up to MaxNodes components below the Screen:
\* p[j] is the parent of component j + 1, always an earlier container
RECURSIVE ParentVecs(_)
ParentVecs(n) ==
    IF n = 0 THEN {<<>>}
    ELSE {Append(p, q) : p \in ParentVecs(n - 1), q \in 1..n}

GenKinds == {"Container", "Label", "Button"}

GenSpec(p, k) ==
    <<Cmp("Screen", 0, 0, 4)>> \o
    [j \in 1..Len(p) |-> Cmp(k[j], p[j], 0, IF k[j] = "Container" THEN 0 ELSE 1)]

GenTrees ==
    {MkTree(GenSpec(p, k)) :
        <<p, k>> \in UNION {
            {<<p, k>> \in ParentVecs(n) \X [1..n -> GenKinds] :
                \A j \in 1..n :
                    p[j] = 1 \/ k[p[j] - 1] = "Container"} :
            n \in 0..MaxNodes}}

\* the README screen: a title, a ScrollContainer of viewport height h at
\* row 1 holding n single-row Buttons at rows 0..n-1, and a Button below
RowScene(n, h) ==
    MkTree(<<Cmp("Screen", 0, 0, 4),
             Cmp("Label", 1, 0, 1),
             Cmp("ScrollContainer", 1, 1, h),
             Cmp("Button", 1, h + 1, 1)>> \o
           [r \in 1..n |-> Cmp("Button", 3, r - 1, 1)])

RowScenes == {RowScene(n, h) : <<n, h>> \in
                 {<<n, h>> \in (2..MaxRows) \X (1..MaxRows) : h < n}}

\* a ScrollContainer whose second child is a Container of three Buttons
NestedScene ==
    MkTree(<<Cmp("Screen", 0, 0, 4),
             Cmp("ScrollContainer", 1, 1, 2),
             Cmp("Button", 2, 0, 1),
             Cmp("Container", 2, 2, 0),
             Cmp("Button", 4, 0, 1),
             Cmp("Button", 4, 1, 1),
             Cmp("Button", 4, 2, 1)>>)

\* plain widgets, a nested Container and an empty Container
PlainScene ==
    MkTree(<<Cmp("Screen", 0, 0, 4),
             Cmp("Button", 1, 0, 1),
             Cmp("Label", 1, 1, 1),
             ListCmp(1, 1, 3),
             Cmp("Container", 1, 2, 0),
             Cmp("Checkbox", 5, 0, 1),
             Cmp("Button", 5, 1, 1),
             Cmp("Container", 1, 3, 0)>>)

\* no component accepts focus
NoFocusScene ==
    MkTree(<<Cmp("Screen", 0, 0, 4),
             Cmp("Label", 1, 0, 1),
             Cmp("Container", 1, 1, 0),
             Cmp("Label", 3, 0, 1)>>)

EmptyScene == MkTree(<<Cmp("Screen", 0, 0, 4)>>)

Scenes == RowScenes \cup {NestedScene, PlainScene, NoFocusScene, EmptyScene}

\* ------------------------------------- reference order of eligible leaves
\* depth-first pre-order list of the non-container, focus-accepting leaves
RECURSIVE PreOrder(_, _)
RECURSIVE PreOrderKids(_, _, _)
PreOrder(T, c) ==
    IF isContainer(T, c) THEN PreOrderKids(T, c, 1)
    ELSE IF T.kind[c] \in {"Button", "Checkbox", "List", "Input"}
         THEN <<c>> ELSE <<>>

PreOrderKids(T, c, j) ==
    IF j > Len(T.kids[c]) THEN <<>>
    ELSE PreOrder(T, T.kids[c][j]) \o PreOrderKids(T, c, j + 1)

Eligible(T) == PreOrder(T, 1)

EligibleSet(T) == {Eligible(T)[j] : j \in 1..Len(Eligible(T))}

IndexIn(E, c) == CHOOSE j \in 1..Len(E) : E[j] = c

RefNext(E, current) ==
    IF current = NULL THEN (IF Len(E) = 0 THEN NULL ELSE E[1])
    ELSE IF IndexIn(E, current) = Len(E) THEN NULL
         ELSE E[IndexIn(E, current) + 1]

RefPrev(E, current) ==
    IF current = NULL THEN (IF Len(E) = 0 THEN NULL ELSE E[Len(E)])
    ELSE IF IndexIn(E, current) = 1 THEN NULL
         ELSE E[IndexIn(E, current) - 1]

\* --------------------------------------------------------- integer widths
Int8(v) == ((v + 128) % 256) - 128

UInt8(v) == v % 256

\* ------------------------------------------------------------------------
\* The operations below are functions on a record s of the mutable fields
\*   y, dirty, first, last, pressed, checked, captured, sel,
\*   text, position, selecting
\* (one entry per node) and of what the operation did to the display
\*   draws    number of Screen::draw calls
\*   painted  components whose paint() ran
\*   skipped  dirty components whose flag was cleared without painting
\*   shift    ScrollContainer -> the offset its scroll applied (0: none)
\*   scrolled ScrollContainers that took the scroll branch
\* ------------------------------------------------------------------------

\* an offsetChildren that leaves the last child where it is
offsetChildrenM(T, c, yv, y) ==
    [k \in DOMAIN yv |->
        IF \E i \in 0..(componentCount_(T, c) - 2) : components_(T, c, i) = k
        THEN Int8(yv[k] + y)
        ELSE yv[k]]

\* Container::offsetChildren(0, y) on container c: direct children only
offsetChildren(T, c, yv, y) ==
    [k \in DOMAIN yv |->
        IF \E i \in 0..(componentCount_(T, c) - 1) : components_(T, c, i) = k
        THEN Int8(yv[k] + y)
        ELSE yv[k]]

\* Container::update / Button::update / Component::update
RECURSIVE update(_, _, _)
RECURSIVE updateKids(_, _, _, _)
update(T, c, s) ==
    IF isContainer(T, c)
    THEN LET s1 == IF ~s.first[c]
                   THEN [s EXCEPT !.y = offsetChildren(T, c, s.y, s.y[c]),
                                  !.first[c] = TRUE]
                   ELSE s
         IN updateKids(T, c, 0, s1)
    ELSE IF T.kind[c] = "Button"
         THEN [s EXCEPT !.pressed[c] = FALSE]
         ELSE s

updateKids(T, c, i, s) ==
    IF i < componentCount_(T, c)
    THEN updateKids(T, c, i + 1, update(T, components_(T, c, i), s))
    ELSE s

\* Container::repaint that marks its own non-container children only
repaintM(T, c, dm) ==
    IF isContainer(T, c)
    THEN [k \in DOMAIN dm |->
            IF /\ \E i \in 0..(componentCount_(T, c) - 1) :
                       components_(T, c, i) = k
               /\ ~isContainer(T, k)
            THEN TRUE ELSE dm[k]]
    ELSE [dm EXCEPT ![c] = TRUE]

\* Component::repaint on a leaf, Container::repaint on a container
RECURSIVE repaint(_, _, _)
RECURSIVE repaintKids(_, _, _, _)
repaint(T, c, dm) ==
    IF isContainer(T, c) THEN repaintKids(T, c, 0, dm)
    ELSE [dm EXCEPT ![c] = TRUE]

repaintKids(T, c, i, dm) ==
    IF i < componentCount_(T, c)
    THEN repaintKids(T, c, i + 1, repaint(T, components_(T, c, i), dm))
    ELSE dm

\* scrollNeeded without the comparison with lastFocusHolder_
scrollNeededM(T, c, s, fh) ==
    /\ contains(T, c, fh)
    /\ LET yStart == UInt8(s.y[c])
           yEnd == UInt8(s.y[c] + T.h[c] - 1)
       IN s.y[fh] < yStart \/ s.y[fh] > yEnd

\* ScrollContainer::scrollNeeded on c, fh being screen_->focusHolder()
scrollNeeded(T, c, s, fh) ==
    /\ s.last[c] # fh
    /\ contains(T, c, fh)
    /\ LET yStart == UInt8(s.y[c])
           yEnd == UInt8(s.y[c] + T.h[c] - 1)
       IN s.y[fh] < yStart \/ s.y[fh] > yEnd

\* Component::dirty, Container::dirty, ScrollContainer::dirty
RECURSIVE dirty(_, _, _, _)
dirty(T, c, s, fh) ==
    IF isContainer(T, c)
    THEN \/ \E i \in 0..(componentCount_(T, c) - 1) :
                dirty(T, components_(T, c, i), s, fh)
         \/ isScroll(T, c) /\ scrollNeeded(T, c, s, fh)
    ELSE s.dirty[c]

\* the offset ScrollContainer::paint hands to offsetChildren
scrollOffset(T, c, s, fh) ==
    LET yStart == UInt8(s.y[c])
        yEnd == UInt8(s.y[c] + T.h[c] - 1)
    IN IF s.y[fh] > yEnd THEN yEnd - s.y[fh] ELSE yStart - s.y[fh]

\* the draw calls of Label::paint: the two focus decorations and the text
\* (the blanks for a shortened text only add to a paint that draws anyway)
labelDraws(T, c) == IF acceptsFocus(T, c) THEN 3 ELSE 1

\* the test of ScrollContainer::paint that lets a child paint
inWindow(T, c, s, k) ==
    (s.y[k] >= s.y[c]) /\ (s.y[k] < s.y[c] + T.h[c])

\* a Container::paint that draws a child that is not dirty
cleanChildM(T, k, s, fh) == [s EXCEPT !.draws = @ + 1]

\* what Container::paint does with a child that is not dirty
cleanChild(T, k, s, fh) == s

\* Label::paint on a leaf, Container::paint, ScrollContainer::paint
RECURSIVE paint(_, _, _, _)
RECURSIVE paintKids(_, _, _, _, _)
RECURSIVE scrollPaintKids(_, _, _, _, _)
paint(T, c, s, fh) ==
    IF isScroll(T, c)
    THEN LET s0 == [s EXCEPT !.painted = @ \cup {c}]
             s1 == IF scrollNeeded(T, c, s0, fh)
                   THEN [s0 EXCEPT
                           !.draws = @ + T.h[c],
                           !.y = offsetChildren(T, c, s0.y,
                                                scrollOffset(T, c, s0, fh)),
                           !.last[c] = fh,
                           !.dirty = repaint(T, c, s0.dirty),
                           !.shift[c] = scrollOffset(T, c, s0, fh),
                           !.scrolled = @ \cup {c}]
                   ELSE s0
         IN scrollPaintKids(T, c, 0, s1, fh)
    ELSE IF isContainer(T, c)
         THEN paintKids(T, c, 0, [s EXCEPT !.painted = @ \cup {c}], fh)
         ELSE [s EXCEPT !.dirty[c] = FALSE,
                        !.draws = @ + labelDraws(T, c),
                        !.painted = @ \cup {c}]

paintKids(T, c, i, s, fh) ==
    IF i < componentCount_(T, c)
    THEN LET k == components_(T, c, i) IN
         paintKids(T, c, i + 1,
                   IF dirty(T, k, s, fh) THEN paint(T, k, s, fh)
                   ELSE cleanChild(T, k, s, fh),
                   fh)
    ELSE s

scrollPaintKids(T, c, i, s, fh) ==
    IF i < componentCount_(T, c)
    THEN LET k == components_(T, c, i) IN
         scrollPaintKids(T, c, i + 1,
                   IF dirty(T, k, s, fh) /\ inWindow(T, c, s, k)
                   THEN paint(T, k, s, fh)
                   ELSE [s EXCEPT
                           !.dirty[k] = FALSE,
                           !.skipped = IF dirty(T, k, s, fh)
                                       THEN @ \cup {k} ELSE @],
                   fh)
    ELSE s

\* ----------------------------------------------------- leaf input handling
maxOf(a, b) == IF a > b THEN a ELSE b

minOf(a, b) == IF a < b THEN a ELSE b

\* a Button that does not record the press
buttonHandleInputEventM(T, c, s, x, y, selected, cancelled) ==
    [s |-> s, ret |-> FALSE]

\* Button::handleInputEvent
buttonHandleInputEvent(T, c, s, x, y, selected, cancelled) ==
    [s |-> [s EXCEPT !.pressed[c] = selected], ret |-> FALSE]

\* Checkbox::handleInputEvent (setText and repaint mark it dirty)
checkboxHandleInputEvent(T, c, s, x, y, selected, cancelled) ==
    [s |-> IF selected
           THEN [s EXCEPT !.checked[c] = ~@, !.dirty[c] = TRUE]
           ELSE s,
     ret |-> FALSE]

\* a List that does not clamp the index at the last item
listHandleInputEventM(T, c, s, x, y, selected, cancelled) ==
    LET s1 == IF s.captured[c] /\ y # 0
              THEN [s EXCEPT
                      !.sel[c] = UInt8(IF y < 0
                                       THEN maxOf(s.sel[c] + y, 0)
                                       ELSE s.sel[c] + y),
                      !.dirty[c] = TRUE]
              ELSE s
        s2 == IF selected
              THEN [s1 EXCEPT !.captured[c] = ~@, !.dirty[c] = TRUE]
              ELSE s1
    IN [s |-> s2, ret |-> s2.captured[c]]

\* List::handleInputEvent (setSelectedIndex takes a uint8_t and repaints)
listHandleInputEvent(T, c, s, x, y, selected, cancelled) ==
    LET s1 == IF s.captured[c] /\ y # 0
              THEN [s EXCEPT
                      !.sel[c] = UInt8(IF y < 0
                                       THEN maxOf(s.sel[c] + y, 0)
                                       ELSE minOf(s.sel[c] + y,
                                                  T.items[c] - 1)),
                      !.dirty[c] = TRUE]
              ELSE s
        s2 == IF selected
              THEN [s1 EXCEPT !.captured[c] = ~@, !.dirty[c] = TRUE]
              ELSE s1
    IN [s |-> s2, ret |-> s2.captured[c]]

\* ---------------------------------------------------------- RangeCharSet
\* a character set R is the sequence of its ranges <<low, high>>, in the
\* order given to the constructor; ranges_[2i] and ranges_[2i + 1]
rangeLow(R, i) == R[i + 1][1]

rangeHigh(R, i) == R[i + 1][2]

rangeCount_(R) == UInt8(Len(R))

\* RangeCharSet::size, accumulated in an unsigned char
RECURSIVE sizeLoop(_, _, _)
sizeLoop(R, i, sz) ==
    IF i < rangeCount_(R)
    THEN sizeLoop(R, i + 1, UInt8(sz + (rangeHigh(R, i) - rangeLow(R, i)) + 1))
    ELSE sz

size(R) == sizeLoop(R, 0, 0)

\* the test of RangeCharSet::charAt that selects range i for an index
inRange(R, i, index, currentIndex) ==
    /\ index >= currentIndex
    /\ index <= currentIndex + (rangeHigh(R, i) - rangeLow(R, i))

\* RangeCharSet::charAt
RECURSIVE charAtLoop(_, _, _, _)
charAtLoop(R, index, i, currentIndex) ==
    IF i < rangeCount_(R)
    THEN IF inRange(R, i, index, currentIndex)
         THEN UInt8(rangeLow(R, i) + (index - currentIndex))
         ELSE charAtLoop(R, index, i + 1,
                  currentIndex + (rangeHigh(R, i) - rangeLow(R, i)) + 1)
    ELSE -1

charAt(R, index) == charAtLoop(R, index, 0, 0)

\* RangeCharSet::indexOf: the first index below size() whose character is
\* ch, -1 when the loop finds none
indexOf(R, ch) ==
    LET hits == {i \in 0..(size(R) - 1) : charAt(R, i) = ch}
    IN IF hits = {} THEN -1
       ELSE CHOOSE i \in hits : \A j \in hits : i <= j

defaultCharSet ==
    <<<<32, 32>>, <<65, 90>>, <<97, 122>>, <<48, 57>>,
      <<33, 47>>, <<58, 64>>, <<91, 96>>, <<123, 126>>>>

\* Input::charSet_, set to &defaultCharSet by the constructor: the results
\* of its size(), indexOf(ch) and charAt(index) calls, tabulated as
\* sequences (entry ch + 1 for indexOf(ch), entry index + 2 for
\* charAt(index), index being -1 at least)
charSet_ ==
    [size |-> size(defaultCharSet),
     indexOf |-> <<>> \o [j \in 1..256 |-> indexOf(defaultCharSet, j - 1)],
     charAt |-> <<>> \o [j \in 1..257 |-> charAt(defaultCharSet, j - 2)]]

\* an edit by character-code arithmetic
editedCharM(cs, ch, y) == UInt8(ch + y)

\* the character Input::handleInputEvent stores for the character ch under
\* the cursor and a vertical delta y # 0, cs being charSet_
editedChar(cs, ch, y) ==
    UInt8(IF y < 0
          THEN cs.charAt[maxOf(cs.indexOf[ch + 1] + y, 0) + 2]
          ELSE cs.charAt[minOf(cs.indexOf[ch + 1] + y, cs.size - 1) + 2])

\* an Input that is not released at the right edge
inputHandleInputEventM(T, c, s, x, y, selected, cancelled) ==
    LET width_ == Len(s.text[c])
        pos == Int8(s.position[c] + y)
        s1 == IF s.captured[c] /\ y # 0
              THEN IF s.selecting[c]
                   THEN [s EXCEPT
                           !.text[c][s.position[c] + 1] =
                               editedChar(charSet_, @, y),
                           !.dirty[c] = TRUE]
                   ELSE [s EXCEPT
                           !.position[c] = pos,
                           !.captured[c] = IF pos < 0 THEN FALSE ELSE @,
                           !.dirty[c] = TRUE]
              ELSE s
        s2 == IF selected
              THEN IF s1.captured[c]
                   THEN [s1 EXCEPT !.selecting[c] = ~@, !.dirty[c] = TRUE]
                   ELSE [s1 EXCEPT !.captured[c] = TRUE,
                                   !.position[c] = 0,
                                   !.selecting[c] = FALSE,
                                   !.dirty[c] = TRUE]
              ELSE s1
    IN [s |-> s2, ret |-> s2.captured[c]]

\* Input::handleInputEvent; width_ is the length of the text
inputHandleInputEvent(T, c, s, x, y, selected, cancelled) ==
    LET width_ == Len(s.text[c])
        pos == Int8(s.position[c] + y)
        s1 == IF s.captured[c] /\ y # 0
              THEN IF s.selecting[c]
                   THEN [s EXCEPT
                           !.text[c][s.position[c] + 1] =
                               editedChar(charSet_, @, y),
                           !.dirty[c] = TRUE]
                   ELSE [s EXCEPT
                           !.position[c] = pos,
                           !.captured[c] =
                               IF pos < 0 \/ pos >= width_ THEN FALSE ELSE @,
                           !.dirty[c] = TRUE]
              ELSE s
        s2 == IF selected
              THEN IF s1.captured[c]
                   THEN [s1 EXCEPT !.selecting[c] = ~@, !.dirty[c] = TRUE]
                   ELSE [s1 EXCEPT !.captured[c] = TRUE,
                                   !.position[c] = 0,
                                   !.selecting[c] = FALSE,
                                   !.dirty[c] = TRUE]
              ELSE s1
    IN [s |-> s2, ret |-> s2.captured[c]]

\* the virtual call focusHolder_->handleInputEvent(x, y, selected, cancelled)
handleInputEvent(T, c, s, x, y, selected, cancelled) ==
    IF T.kind[c] = "Button"
    THEN buttonHandleInputEvent(T, c, s, x, y, selected, cancelled)
    ELSE IF T.kind[c] = "Checkbox"
    THEN checkboxHandleInputEvent(T, c, s, x, y, selected, cancelled)
    ELSE IF T.kind[c] = "List"
    THEN listHandleInputEvent(T, c, s, x, y, selected, cancelled)
    ELSE IF T.kind[c] = "Input"
    THEN inputHandleInputEvent(T, c, s, x, y, selected, cancelled)
    ELSE [s |-> s, ret |-> FALSE]

\* ------------------------------------------------------------------ state
St ==
    [y |-> y_, dirty |-> dirty_, first |-> firstUpdateCompleted_,
     last |-> lastFocusHolder_, pressed |-> pressed_, checked |-> checked_,
     captured |-> captured_, sel |-> selectedIndex_,
     text |-> text_, position |-> position_, selecting |-> selecting_,
     draws |-> 0, painted |-> {}, skipped |-> {},
     shift |-> [c \in Nodes(tree) |-> 0], scrolled |-> {}]

NoObs ==
    [op |-> "init", y |-> 0, selected |-> FALSE,
     old |-> NULL, wasSelected |-> FALSE, nullCall |-> FALSE,
     clears |-> 0, draws |-> 0, painted |-> {}, skipped |-> {},
     shift |-> <<>>, scrolled |-> {}, target |-> NULL,
     yBefore |-> <<>>, downOnly |-> TRUE]

NoProbe == [set |-> FALSE, focusHolder |-> NULL, reverse |-> FALSE,
            res |-> NULL, back |-> Garbage]

NoSince == [target |-> NULL, painted |-> {}, skipped |-> {}]

\* no event forwarded: calls counts the handleInputEvent calls of the frame,
\* cancelled is the flag handed to the call, cancelPolled the flag polled,
\* ret is the value the call returned, the Before fields are the state the
\* focus holder and the ScrollContainers had when the frame began, marked
\* holds the old and the new focus holder that were dirty when the paint of
\* the frame began,
\* atCapture[c] is selectedIndex_ of List c at the moment it was last
\* captured; on tells whether events are observed at all
NoEv(T) ==
    [on |-> FALSE,
     input |-> FALSE, calls |-> 0, cancelled |-> FALSE,
     cancelPolled |-> FALSE, ret |-> FALSE,
     capBefore |-> FALSE, selBefore |-> 0, editBefore |-> FALSE,
     posBefore |-> 0, chBefore |-> 0, lastBefore |-> <<>>, marked |-> {},
     atCapture |-> [c \in Nodes(T) |-> 0]]

Watching(T) == [NoEv(T) EXCEPT !.on = TRUE]

\* Container::Container(): no array, length and count zero
NoStore ==
    [components_ |-> <<>>, componentsLength_ |-> 0, componentCount_ |-> 0,
     adds |-> <<>>, y |-> <<>>, dirty |-> <<>>, oob |-> FALSE,
     halted |-> FALSE]

\* no character set under test
NoCharSet ==
    [ranges |-> <<>>, op |-> "none", ch |-> 0, index |-> 0, res |-> 0,
     back |-> 0]

\* no run of movement frames observed; on tells whether runs are observed
NoReach == [on |-> FALSE, dir |-> 0, seq |-> <<>>]

\* no Label under test
NoLabel ==
    [focus |-> FALSE, width_ |-> 0, dirtyWidth_ |-> 0, dirty_ |-> FALSE,
     cells |-> <<>>, blanks |-> 0, op |-> "none", prev |-> "none"]

PlainContainers(T) == Containers(T) \ Scrolls(T)

\* Container::Container() leaves firstUpdateCompleted_ unset: either value;
\* ScrollContainer::ScrollContainer sets it to false
FirstChoices(T) ==
    {[c \in Nodes(T) |-> IF c \in PlainContainers(T) THEN g[c] ELSE FALSE] :
        g \in [PlainContainers(T) -> BOOLEAN]}

\* ScrollContainer::ScrollContainer leaves lastFocusHolder_ unset: NULL,
\* the address of a component, or an address of no component
LastChoices(T) ==
    {[c \in Nodes(T) |-> IF c \in Scrolls(T) THEN g[c] ELSE NULL] :
        g \in [Scrolls(T) -> EligibleSet(T) \cup {NULL, Garbage}]}

\* the state after the constructors and the add() calls that built T
Constructed(T) ==
    /\ tree = T
    /\ y_ = [c \in Nodes(T) |-> T.addY[c]]
    /\ dirty_ = [c \in Nodes(T) |-> ~isContainer(T, c)]
    /\ focusHolder_ = NULL
    /\ focusHolderSelected_ = FALSE
    /\ cleared_ = FALSE
    /\ annoyingBugWorkedAround_ = FALSE
    /\ pressed_ = [c \in Nodes(T) |-> FALSE]
    /\ checked_ = [c \in Nodes(T) |-> FALSE]
    /\ captured_ = [c \in Nodes(T) |-> FALSE]
    /\ selectedIndex_ = [c \in Nodes(T) |-> 0]
    /\ text_ = [c \in Nodes(T) |-> T.text[c]]
    /\ position_ = [c \in Nodes(T) |-> 0]
    /\ selecting_ = [c \in Nodes(T) |-> FALSE]
    /\ store = NoStore
    /\ cset = NoCharSet
    /\ label = NoLabel
    /\ halted = FALSE
    /\ since = NoSince
    /\ obs = NoObs
    /\ probe = NoProbe

Init ==
    \E T \in Scenes :
        /\ Constructed(T)
        /\ ev = Watching(T)
        /\ reach = NoReach
        /\ firstUpdateCompleted_ \in FirstChoices(T)
        /\ lastFocusHolder_ \in LastChoices(T)

\* ---------------------------------------------------------- Container::add
\* the array after the growth branch of add: a new array of
\* 2 * componentsLength_ + 1 slots (computed in a uint8_t) that receives the
\* first componentCount_ entries; the other slots hold no value yet
grown(st) ==
    LET newComponentsLength == UInt8((st.componentsLength_ * 2) + 1)
    IN [st EXCEPT
          !.components_ = [i \in 1..newComponentsLength |->
                              IF i <= st.componentCount_
                              THEN st.components_[i] ELSE Garbage],
          !.componentsLength_ = newComponentsLength]

\* the condition of the growth branch (components_ is NULL before the
\* first allocation)
growthNeeded(st) ==
    st.components_ = <<>> \/ st.componentsLength_ <= st.componentCount_

\* whether the store of add lands outside the allocated array
addOutOfBounds(st) ==
    LET st1 == IF growthNeeded(st) THEN grown(st) ELSE st
    IN st1.componentCount_ >= st1.componentsLength_

\* a store past the end of the array: the loop stops there, or the store
\* lands in memory that is not the array
AddOutcomes == {"halt", "stray"}

\* Container::add(component, 0, y); the component is a new object whose
\* y_ and dirty_ are entry `component` of st.y and st.dirty
add(st, component, y, ub) ==
    LET st1 == IF growthNeeded(st) THEN grown(st) ELSE st
        called == [st1 EXCEPT !.adds = Append(@, component)]
    IN IF st1.componentCount_ < st1.componentsLength_
       THEN [called EXCEPT
               !.components_[st1.componentCount_ + 1] = component,
               !.componentCount_ = UInt8(@ + 1),
               !.y = Append(@, y),
               !.dirty = Append(@, TRUE)]
       ELSE IF ub = "halt"
       THEN [called EXCEPT !.oob = TRUE, !.halted = TRUE]
       ELSE [called EXCEPT
               !.oob = TRUE,
               !.componentCount_ = UInt8(@ + 1),
               !.y = Append(@, y),
               !.dirty = Append(@, TRUE)]

\* the host adds one more component, a new object, at one of four rows
Add(ub) ==
    /\ ~store.oob
    /\ Len(store.adds) < MaxAdds
    /\ store' = add(store, Len(store.adds) + 1, Len(store.adds) % 4, ub)
    /\ UNCHANGED <<tree, y_, dirty_, firstUpdateCompleted_, lastFocusHolder_,
                   focusHolder_, focusHolderSelected_, cleared_,
                   annoyingBugWorkedAround_, pressed_, checked_, captured_,
                   selectedIndex_, text_, position_, selecting_, cset,
                   label, halted, since, obs, ev, probe, reach>>

InitAdd ==
    /\ Constructed(EmptyScene)
    /\ ev = NoEv(EmptyScene)
    /\ reach = NoReach
    /\ firstUpdateCompleted_ \in FirstChoices(EmptyScene)
    /\ lastFocusHolder_ \in LastChoices(EmptyScene)

NextAdd ==
    \E ub \in IF addOutOfBounds(store) THEN AddOutcomes ELSE {"none"} :
        Add(ub)

SpecAdd == InitAdd /\ [][NextAdd]_vars

\* ---------------------------------------------- calls on a RangeCharSet
\* the ends of the ranges given to the constructor, and the inclusive
\* ranges <<low, high>> over them
RangeEnds == {0, 1, 254, 255}

Ranges == {r \in RangeEnds \X RangeEnds : r[1] <= r[2]}

RECURSIVE RangeLists(_)
RangeLists(n) ==
    IF n = 0 THEN {<<>>}
    ELSE RangeLists(n - 1) \cup
         {Append(R, r) : R \in {Q \in RangeLists(n - 1) : Len(Q) = n - 1},
                         r \in Ranges}

\* the characters and indexes the calls are made with
ProbeChars == {0, 1, 2, 128, 253, 254, 255}

ProbeIndexes == {0, 1, 2, 3, 253, 254, 255}

\* RangeCharSet::RangeCharSet(rangeCount, ...)
NewCharSet(R) ==
    /\ cset.op = "none"
    /\ cset' = [NoCharSet EXCEPT !.ranges = R, !.op = "new"]
    /\ UNCHANGED <<tree, y_, dirty_, firstUpdateCompleted_, lastFocusHolder_,
                   focusHolder_, focusHolderSelected_, cleared_,
                   annoyingBugWorkedAround_, pressed_, checked_, captured_,
                   selectedIndex_, text_, position_, selecting_, store,
                   label, halted, since, obs, ev, probe, reach>>

\* indexOf(ch), and charAt of the index it returned when that is not -1
CallIndexOf(ch) ==
    /\ cset.op # "none"
    /\ cset' = [cset EXCEPT
                  !.op = "indexOf", !.ch = ch, !.index = 0,
                  !.res = indexOf(cset.ranges, ch),
                  !.back = IF indexOf(cset.ranges, ch) = -1 THEN -1
                           ELSE charAt(cset.ranges,
                                       indexOf(cset.ranges, ch))]
    /\ UNCHANGED <<tree, y_, dirty_, firstUpdateCompleted_, lastFocusHolder_,
                   focusHolder_, focusHolderSelected_, cleared_,
                   annoyingBugWorkedAround_, pressed_, checked_, captured_,
                   selectedIndex_, text_, position_, selecting_, store,
                   label, halted, since, obs, ev, probe, reach>>

\* charAt(index), and indexOf of the character it returned when that is
\* not -1
CallCharAt(index) ==
    /\ cset.op # "none"
    /\ cset' = [cset EXCEPT
                  !.op = "charAt", !.ch = 0, !.index = index,
                  !.res = charAt(cset.ranges, index),
                  !.back = IF charAt(cset.ranges, index) = -1 THEN -1
                           ELSE indexOf(cset.ranges,
                                        charAt(cset.ranges, index))]
    /\ UNCHANGED <<tree, y_, dirty_, firstUpdateCompleted_, lastFocusHolder_,
                   focusHolder_, focusHolderSelected_, cleared_,
                   annoyingBugWorkedAround_, pressed_, checked_, captured_,
                   selectedIndex_, text_, position_, selecting_, store,
                   label, halted, since, obs, ev, probe, reach>>

InitCharSet ==
    /\ Constructed(EmptyScene)
    /\ ev = NoEv(EmptyScene)
    /\ reach = NoReach
    /\ firstUpdateCompleted_ = [c \in Nodes(EmptyScene) |-> FALSE]
    /\ lastFocusHolder_ = [c \in Nodes(EmptyScene) |-> NULL]

NextCharSet ==
    \/ \E R \in RangeLists(MaxRanges) : NewCharSet(R)
    \/ \E ch \in ProbeChars : CallIndexOf(ch)
    \/ \E index \in ProbeIndexes : CallCharAt(index)

SpecCharSet == InitCharSet /\ [][NextCharSet]_vars

\* ------------------------------------------------------------------ Label
\* A Label at x = 0 on one display row.  label.cells is the row, cell j + 1
\* being column j: " " blank, "t" a character of a text, "[" and "]" the
\* decorations of a focus-accepting subclass; label.blanks counts the
\* blanks the last paint wrote, op and prev are the last two calls.

\* Label::Label(text) with a text of n characters, on a cleared display;
\* focus tells whether the object is of a subclass that accepts focus
labelNew(focus, n) ==
    [focus |-> focus, width_ |-> UInt8(n), dirtyWidth_ |-> 0,
     dirty_ |-> TRUE, cells |-> [j \in 1..(MaxText + 3) |-> " "],
     blanks |-> 0, op |-> "new", prev |-> "none"]

\* Label::setText with a text of n characters
labelSetText(lb, n) ==
    LET newWidth == UInt8(n)
    IN [lb EXCEPT
          !.dirtyWidth_ = IF newWidth < lb.width_ THEN lb.width_ ELSE @,
          !.width_ = newWidth,
          !.dirty_ = TRUE,
          !.op = "setText", !.prev = lb.op]

\* Label::paint: the decorations, the text, then the blanks
labelPaint(lb) ==
    LET off == IF lb.focus THEN 1 ELSE 0
        count == IF lb.dirtyWidth_ # 0
                 THEN maxOf(lb.dirtyWidth_ - lb.width_, 0) ELSE 0
        first == lb.width_ + 2 * off
    IN [lb EXCEPT
          !.cells = [j \in DOMAIN lb.cells |->
                       LET x == j - 1 IN
                       IF lb.focus /\ x = 0 THEN "["
                       ELSE IF lb.focus /\ x = lb.width_ + 1 THEN "]"
                       ELSE IF x >= off /\ x < off + lb.width_ THEN "t"
                       ELSE IF x >= first /\ x < first + count THEN " "
                       ELSE lb.cells[j]],
          !.blanks = count,
          !.dirtyWidth_ = 0,
          !.dirty_ = FALSE,
          !.op = "paint", !.prev = lb.op]

NewLabel(focus, n) ==
    /\ label.op = "none"
    /\ label' = labelNew(focus, n)
    /\ UNCHANGED <<tree, y_, dirty_, firstUpdateCompleted_, lastFocusHolder_,
                   focusHolder_, focusHolderSelected_, cleared_,
                   annoyingBugWorkedAround_, pressed_, checked_, captured_,
                   selectedIndex_, text_, position_, selecting_, store, cset,
                   halted, since, obs, ev, probe, reach>>

SetText(n) ==
    /\ label.op # "none"
    /\ label' = labelSetText(label, n)
    /\ UNCHANGED <<tree, y_, dirty_, firstUpdateCompleted_, lastFocusHolder_,
                   focusHolder_, focusHolderSelected_, cleared_,
                   annoyingBugWorkedAround_, pressed_, checked_, captured_,
                   selectedIndex_, text_, position_, selecting_, store, cset,
                   halted, since, obs, ev, probe, reach>>

PaintLabel ==
    /\ label.op # "none"
    /\ label' = labelPaint(label)
    /\ UNCHANGED <<tree, y_, dirty_, firstUpdateCompleted_, lastFocusHolder_,
                   focusHolder_, focusHolderSelected_, cleared_,
                   annoyingBugWorkedAround_, pressed_, checked_, captured_,
                   selectedIndex_, text_, position_, selecting_, store, cset,
                   halted, since, obs, ev, probe, reach>>

InitLabel ==
    /\ Constructed(EmptyScene)
    /\ ev = NoEv(EmptyScene)
    /\ reach = NoReach
    /\ firstUpdateCompleted_ = [c \in Nodes(EmptyScene) |-> FALSE]
    /\ lastFocusHolder_ = [c \in Nodes(EmptyScene) |-> NULL]

NextLabel ==
    \/ \E focus \in BOOLEAN, n \in 0..MaxText : NewLabel(focus, n)
    \/ \E n \in 0..MaxText : SetText(n)
    \/ PaintLabel

SpecLabel == InitLabel /\ [][NextLabel]_vars

\* ------------------------------------------------------ calls of the search
Search(focusHolder, reverse) ==
    /\ probe' = [set |-> TRUE, focusHolder |-> focusHolder,
                 reverse |-> reverse,
                 res |-> nextFocusHolder(tree, 1, focusHolder, reverse),
                 back |-> Garbage]
    /\ UNCHANGED <<tree, y_, dirty_, firstUpdateCompleted_, lastFocusHolder_,
                   focusHolder_, focusHolderSelected_, cleared_,
                   annoyingBugWorkedAround_, pressed_, checked_, captured_,
                   selectedIndex_, text_, position_, selecting_, store, cset,
                   label, halted, since, obs, ev, reach>>

\* a second call, from the result of the first one in the other direction
SearchBack ==
    /\ probe.set
    /\ probe.res # NULL
    /\ probe.back = Garbage
    /\ probe' = [probe EXCEPT
                   !.back = nextFocusHolder(tree, 1, probe.res,
                                            ~probe.reverse)]
    /\ UNCHANGED <<tree, y_, dirty_, firstUpdateCompleted_, lastFocusHolder_,
                   focusHolder_, focusHolderSelected_, cleared_,
                   annoyingBugWorkedAround_, pressed_, checked_, captured_,
                   selectedIndex_, text_, position_, selecting_, store, cset,
                   label, halted, since, obs, ev, reach>>

InitFocus ==
    \E T \in GenTrees :
        /\ Constructed(T)
        /\ ev = NoEv(T)
        /\ reach = NoReach
        /\ firstUpdateCompleted_ = [c \in Nodes(T) |-> FALSE]
        /\ lastFocusHolder_ = [c \in Nodes(T) |-> NULL]

NextFocus ==
    \/ \E focusHolder \in EligibleSet(tree) \cup {NULL}, reverse \in BOOLEAN :
           Search(focusHolder, reverse)
    \/ SearchBack

SpecFocus == InitFocus /\ [][NextFocus]_vars

\* -------------------------------------------------------------- the frame
\* the two-step search of Screen::update: a search from the focus holder
\* and, when that returns nothing, the same search from no holder
moveFocus(T, focusHolder, reverse) ==
    LET f == nextFocusHolder(T, 1, focusHolder, reverse)
    IN IF f = NULL THEN nextFocusHolder(T, 1, f, reverse) ELSE f

\* the capture state Screen::update stores after forwarding an event
captureAfter(ret) == ret

Deltas == (-MaxDelta)..MaxDelta

\* the source only tests x for being non-zero
DeltasX == {0, 1}

\* an input test that does not look at cancelled
hasInputM(x, y, selected, cancelled) == x # 0 \/ y # 0 \/ selected

\* the test of Screen::update for "some input was polled"
hasInput(x, y, selected, cancelled) == x # 0 \/ y # 0 \/ selected \/ cancelled

\* the repaint() calls Screen::update makes when the focus holder changed
\* (the call on a NULL new holder is the null call of the frame)
focusRepaint(T, oldFocusHolder, focusHolder, dm) ==
    IF oldFocusHolder # focusHolder
    THEN LET d1 == IF oldFocusHolder # NULL
                   THEN repaint(T, oldFocusHolder, dm)
                   ELSE dm
         IN IF focusHolder # NULL THEN repaint(T, focusHolder, d1) ELSE d1
    ELSE dm

\* whether this frame makes a call through a NULL focusHolder_
nullCallInFrame(T, focusHolder, captured, x, y, selected, cancelled) ==
    LET input == hasInput(x, y, selected, cancelled)
        forwarded == input /\ (captured \/ selected)
        fh2 == IF input /\ ~forwarded /\ (x # 0 \/ y # 0)
               THEN IF y > 0 THEN nextFocusHolder(T, 1, focusHolder, FALSE)
                    ELSE IF y < 0 THEN nextFocusHolder(T, 1, focusHolder, TRUE)
                    ELSE focusHolder
               ELSE focusHolder
    IN \/ forwarded /\ focusHolder = NULL
       \/ focusHolder # NULL /\ fh2 = NULL
             /\ nextFocusHolder(T, 1, NULL, fh2 # NULL) = NULL

\* what a call through a NULL focusHolder_ does: the loop stops there, or
\* the call comes back with either return value
NullOutcomes == {"halt", "true", "false"}

Assign(s) ==
    /\ y_' = s.y
    /\ dirty_' = s.dirty
    /\ firstUpdateCompleted_' = s.first
    /\ lastFocusHolder_' = s.last
    /\ pressed_' = s.pressed
    /\ checked_' = s.checked
    /\ captured_' = s.captured
    /\ selectedIndex_' = s.sel
    /\ text_' = s.text
    /\ position_' = s.position
    /\ selecting_' = s.selecting

\* the components painted or skipped since the tracked repaint()
SinceAfter(s) ==
    IF since.target = NULL THEN since
    ELSE [since EXCEPT !.painted = @ \cup s.painted,
                       !.skipped = @ \cup s.skipped]

\* Screen::update with the deltas polled by getInputDeltas, as a function
\* of the state before the frame; ub is the outcome of a call through NULL
screenUpdate(T, st, focusHolder, captured, worked, x, y, selected, cancelled, ub) ==
    LET s1 == update(T, 1, st)
        oldFocusHolder == focusHolder
        input == hasInput(x, y, selected, cancelled)
        forwarded == input /\ (captured \/ selected)
        nullEvent == forwarded /\ focusHolder = NULL
        call == IF forwarded /\ focusHolder # NULL
              THEN handleInputEvent(T, focusHolder, s1,
                                    x, y, selected, cancelled)
              ELSE [s |-> s1, ret |-> (ub = "true")]
        sel2 == IF forwarded THEN captureAfter(call.ret) ELSE captured
        fh2 == IF input /\ ~forwarded /\ (x # 0 \/ y # 0)
               THEN IF y > 0 THEN moveFocus(T, focusHolder, FALSE)
                    ELSE IF y < 0 THEN moveFocus(T, focusHolder, TRUE)
                    ELSE focusHolder
               ELSE focusHolder
        fh3 == IF fh2 = NULL THEN nextFocusHolder(T, 1, fh2, FALSE)
               ELSE fh2
        changed == oldFocusHolder # fh3
        nullRepaint == changed /\ fh3 = NULL
        d1 == IF changed /\ oldFocusHolder # NULL
              THEN repaint(T, oldFocusHolder, call.s.dirty)
              ELSE call.s.dirty
        d2 == focusRepaint(T, oldFocusHolder, fh3, call.s.dirty)
        s3 == paint(T, 1, [call.s EXCEPT !.dirty = d2], fh3)
        s4 == IF ~worked
              THEN [s3 EXCEPT !.dirty = repaint(T, 1, s3.dirty)]
              ELSE s3
        real == forwarded /\ focusHolder # NULL
        isInput == real /\ T.kind[focusHolder] = "Input"
        e == [on |-> TRUE,
              input |-> input,
              calls |-> IF forwarded THEN 1 ELSE 0,
              cancelled |-> forwarded /\ cancelled,
              cancelPolled |-> cancelled,
              ret |-> forwarded /\ call.ret,
              capBefore |-> focusHolder # NULL /\ s1.captured[focusHolder],
              selBefore |-> IF focusHolder # NULL
                            THEN s1.sel[focusHolder] ELSE 0,
              editBefore |-> isInput /\ s1.captured[focusHolder]
                                    /\ s1.selecting[focusHolder],
              posBefore |-> IF isInput THEN s1.position[focusHolder] ELSE 0,
              chBefore |-> IF isInput /\ s1.position[focusHolder] >= 0
                              /\ s1.position[focusHolder]
                                     < Len(s1.text[focusHolder])
                           THEN s1.text[focusHolder]
                                       [s1.position[focusHolder] + 1]
                           ELSE 0,
              lastBefore |-> st.last,
              marked |-> {c \in {oldFocusHolder, fh3} \ {NULL} : d2[c]},
              atCapture |-> <<>>]
    IN IF nullEvent /\ ub = "halt"
       THEN [s |-> s1, focusHolder |-> focusHolder, captured |-> captured,
             worked |-> worked, halted |-> TRUE, nullCall |-> TRUE,
             old |-> oldFocusHolder, repainted |-> FALSE, yBefore |-> s1.y,
             ev |-> e]
       ELSE IF nullRepaint /\ ub = "halt"
       THEN [s |-> [call.s EXCEPT !.dirty = d1], focusHolder |-> fh3,
             captured |-> sel2, worked |-> worked, halted |-> TRUE,
             nullCall |-> TRUE, old |-> oldFocusHolder, repainted |-> FALSE,
             yBefore |-> s1.y, ev |-> e]
       ELSE [s |-> s4, focusHolder |-> fh3, captured |-> sel2,
             worked |-> TRUE, halted |-> FALSE,
             nullCall |-> nullEvent \/ nullRepaint,
             old |-> oldFocusHolder, repainted |-> ~worked,
             yBefore |-> s1.y, ev |-> e]

\* the run of idle frames that polled a movement in one direction and no
\* selected, after a further frame: the holders those frames ended with
reachAfter(rc, captured, y, selected, stopped, focusHolder) ==
    LET dir == IF y > 0 THEN 1 ELSE IF y < 0 THEN -1 ELSE 0
    IN IF captured \/ selected \/ dir = 0 \/ stopped
       THEN [rc EXCEPT !.dir = 0, !.seq = <<>>]
       ELSE IF dir = rc.dir
       THEN [rc EXCEPT !.seq = Append(@, focusHolder)]
       ELSE [rc EXCEPT !.dir = dir, !.seq = <<focusHolder>>]

Update(x, y, selected, cancelled, ub) ==
    /\ ~halted
    /\ \E r \in {screenUpdate(tree, St, focusHolder_, focusHolderSelected_,
                              annoyingBugWorkedAround_,
                              x, y, selected, cancelled, ub)} :
          /\ Assign(r.s)
          /\ focusHolder_' = r.focusHolder
          /\ focusHolderSelected_' = r.captured
          /\ annoyingBugWorkedAround_' = r.worked
          /\ halted' = r.halted
          /\ since' = IF r.halted THEN since
                      ELSE IF r.repainted
                      THEN [target |-> 1, painted |-> {}, skipped |-> {}]
                      ELSE SinceAfter(r.s)
          /\ obs' = [op |-> "update", y |-> y, selected |-> selected,
                     old |-> r.old, wasSelected |-> focusHolderSelected_,
                     nullCall |-> r.nullCall,
                     clears |-> IF cleared_ THEN 0 ELSE 1,
                     draws |-> r.s.draws, painted |-> r.s.painted,
                     skipped |-> r.s.skipped, shift |-> r.s.shift,
                     scrolled |-> r.s.scrolled,
                     target |-> IF r.repainted THEN 1 ELSE NULL,
                     yBefore |-> r.yBefore,
                     downOnly |-> obs.downOnly /\ y > 0 /\ ~selected]
          /\ ev' = IF ~ev.on THEN ev
                    ELSE [r.ev EXCEPT !.atCapture =
                            IF /\ r.ev.calls = 1 /\ focusHolder_ # NULL
                               /\ ~captured_[focusHolder_]
                               /\ r.s.captured[focusHolder_]
                            THEN [ev.atCapture EXCEPT
                                    ![focusHolder_] = r.s.sel[focusHolder_]]
                            ELSE ev.atCapture]
          /\ reach' = IF ~reach.on THEN reach
                       ELSE reachAfter(reach, focusHolderSelected_, y,
                                       selected, r.halted, r.focusHolder)
    /\ cleared_' = TRUE
    /\ UNCHANGED <<tree, store, cset, label, probe>>

\* the host calls paint(&screen) on the Screen (Container::paint)
HostPaint ==
    /\ ~halted
    /\ \E s1 \in {paint(tree, 1, St, focusHolder_)} :
          /\ Assign(s1)
          /\ since' = SinceAfter(s1)
          /\ obs' = [NoObs EXCEPT !.op = "paint",
                                  !.old = focusHolder_,
                                  !.wasSelected = focusHolderSelected_,
                                  !.draws = s1.draws,
                                  !.painted = s1.painted,
                                  !.skipped = s1.skipped,
                                  !.shift = s1.shift,
                                  !.scrolled = s1.scrolled,
                                  !.yBefore = y_,
                                  !.downOnly = FALSE]
    /\ ev' = [NoEv(tree) EXCEPT !.on = ev.on, !.atCapture = ev.atCapture]
    /\ UNCHANGED <<tree, focusHolder_, focusHolderSelected_, cleared_,
                   annoyingBugWorkedAround_, store, cset, label,
                   halted, probe, reach>>

\* the host calls repaint() on container c
HostRepaint(c) ==
    /\ ~halted
    /\ dirty_' = repaint(tree, c, dirty_)
    /\ since' = [target |-> c, painted |-> {}, skipped |-> {}]
    /\ obs' = [NoObs EXCEPT !.op = "repaint",
                            !.old = focusHolder_,
                            !.wasSelected = focusHolderSelected_,
                            !.shift = [k \in Nodes(tree) |-> 0],
                            !.target = c,
                            !.yBefore = y_,
                            !.downOnly = FALSE]
    /\ ev' = [NoEv(tree) EXCEPT !.on = ev.on, !.atCapture = ev.atCapture]
    /\ UNCHANGED <<tree, y_, firstUpdateCompleted_, lastFocusHolder_,
                   focusHolder_, focusHolderSelected_, cleared_,
                   annoyingBugWorkedAround_, pressed_, checked_, captured_,
                   selectedIndex_, text_, position_, selecting_, store, cset,
                   label, halted, probe, reach>>

Frame ==
    \E x \in DeltasX, y \in Deltas, selected \in BOOLEAN,
       cancelled \in BOOLEAN :
        \E ub \in IF nullCallInFrame(tree, focusHolder_, focusHolderSelected_,
                                     x, y, selected, cancelled)
                   THEN NullOutcomes ELSE {"none"} :
            Update(x, y, selected, cancelled, ub)

Next == Frame

Spec == Init /\ [][Next]_vars

\* the widget scenes: a List of three items with a Button and a Checkbox,
\* and an Input on the one-character buffer "0" with a Button
ListScene ==
    MkTree(<<Cmp("Screen", 0, 0, 4),
             ListCmp(1, 0, 3),
             Cmp("Button", 1, 1, 1),
             Cmp("Checkbox", 1, 2, 1)>>)

InputScene ==
    MkTree(<<Cmp("Screen", 0, 0, 4),
             InputCmp(1, 0, <<48>>),
             Cmp("Button", 1, 1, 1)>>)

WidgetScenes == {ListScene, InputScene}

WideDeltas == (-MaxStep)..MaxStep

InitWidgets ==
    \E T \in WidgetScenes :
        /\ Constructed(T)
        /\ ev = Watching(T)
        /\ reach = NoReach
        /\ firstUpdateCompleted_ \in FirstChoices(T)
        /\ lastFocusHolder_ \in LastChoices(T)

\* a frame whose vertical delta may be larger than one step
FrameWide ==
    \E y \in WideDeltas, selected \in BOOLEAN, cancelled \in BOOLEAN :
        \E ub \in IF nullCallInFrame(tree, focusHolder_, focusHolderSelected_,
                                     0, y, selected, cancelled)
                   THEN NullOutcomes ELSE {"none"} :
            Update(0, y, selected, cancelled, ub)

NextWidgets == FrameWide

SpecWidgets == InitWidgets /\ [][NextWidgets]_vars

\* an Input on the three-character buffer "0xf" with a Button, under a
\* user who turns the knob only while the Input is not in its editing
\* sub-state, so that the buffer keeps its characters
NavScene ==
    MkTree(<<Cmp("Screen", 0, 0, 4),
             InputCmp(1, 0, <<48, 120, 102>>),
             Cmp("Button", 1, 1, 1)>>)

InitNav ==
    /\ Constructed(NavScene)
    /\ ev = Watching(NavScene)
    /\ reach = NoReach
    /\ firstUpdateCompleted_ \in FirstChoices(NavScene)
    /\ lastFocusHolder_ \in LastChoices(NavScene)

FrameNav ==
    \E y \in WideDeltas, selected \in BOOLEAN, cancelled \in BOOLEAN :
        /\ (/\ focusHolder_ # NULL
            /\ captured_[focusHolder_]
            /\ selecting_[focusHolder_]) => y = 0
        /\ \E ub \in IF nullCallInFrame(tree, focusHolder_,
                                        focusHolderSelected_,
                                        0, y, selected, cancelled)
                      THEN NullOutcomes ELSE {"none"} :
               Update(0, y, selected, cancelled, ub)

NextNav == FrameNav

SpecNav == InitNav /\ [][NextNav]_vars

\* every small tree, under a user who only turns the knob: runs of frames
\* that move the focus in one direction, observed up to one round
InitReach ==
    \E T \in GenTrees :
        /\ Constructed(T)
        /\ ev = NoEv(T)
        /\ reach = [NoReach EXCEPT !.on = TRUE]
        /\ firstUpdateCompleted_ \in FirstChoices(T)
        /\ lastFocusHolder_ \in LastChoices(T)

FrameMove ==
    \E y \in Deltas \ {0} :
        /\ reach.dir = (IF y > 0 THEN 1 ELSE -1)
               => Len(reach.seq) < Len(Eligible(tree))
        /\ \E ub \in IF nullCallInFrame(tree, focusHolder_,
                                        focusHolderSelected_,
                                        0, y, FALSE, FALSE)
                      THEN NullOutcomes ELSE {"none"} :
               Update(0, y, FALSE, FALSE, ub)

NextReach == FrameMove

SpecReach == InitReach /\ [][NextReach]_vars

\* the frames together with host calls of paint and repaint
PaintScenes == {RowScene(3, 2), NestedScene, PlainScene}

InitPaint ==
    \E T \in PaintScenes :
        /\ Constructed(T)
        /\ ev = NoEv(T)
        /\ reach = NoReach
        /\ firstUpdateCompleted_ \in FirstChoices(T)
        /\ lastFocusHolder_ \in LastChoices(T)

NextPaint ==
    \/ Frame
    \/ HostPaint
    \/ \E c \in Containers(tree) : HostRepaint(c)

SpecPaint == InitPaint /\ [][NextPaint]_vars

\* ------------------------------------------------------------------ claims

\* C1: a forward nextFocusHolder call returns the element after `current` in
\* the pre-order list of eligible leaves (the first one for a null current,
\* null after the last one), descending into nested containers.
C1_ForwardSearch ==
    (probe.set /\ ~probe.reverse)
        => probe.res = RefNext(Eligible(tree), probe.focusHolder)

\* a forward call from an eligible leaf whose result sits in a nested
\* container that does not hold the leaf the search started from
C1_Witness ==
    /\ probe.set /\ ~probe.reverse
    /\ probe.focusHolder # NULL /\ probe.res # NULL
    /\ \E c \in Containers(tree) \ {1} :
           contains(tree, c, probe.res) /\ ~contains(tree, c, probe.focusHolder)

\* C2: a reverse nextFocusHolder call returns the element before `current`
\* in the pre-order list of eligible leaves (the last one for a null current,
\* null before the first one), also for leaves at index 0 of their parent.
C2_ReverseSearch ==
    (probe.set /\ probe.reverse)
        => probe.res = RefPrev(Eligible(tree), probe.focusHolder)

\* C3: searching from an eligible leaf c to a non-null result d and then
\* from d in the other direction returns c.
C3_Reversible ==
    (probe.set /\ probe.focusHolder # NULL /\ probe.back # Garbage)
        => probe.back = probe.focusHolder

\* the reference focus movement of a frame: the neighbour in the pre-order
\* list of eligible leaves, wrapping at either end
WrapNext(E, current) ==
    IF RefNext(E, current) # NULL THEN RefNext(E, current)
    ELSE RefNext(E, NULL)

WrapPrev(E, current) ==
    IF RefPrev(E, current) # NULL THEN RefPrev(E, current)
    ELSE RefPrev(E, NULL)

\* C4: a frame taken while not captured and holding a focus holder, with
\* dy > 0 and not selected, moves
\* focus to the next eligible leaf in pre-order (wrapping last to first);
\* with dy < 0 it moves to the previous one (wrapping first to last).
C4_FocusMoves ==
    (obs.op = "update" /\ ~halted /\ ~obs.wasSelected /\ ~obs.selected
        /\ obs.y # 0 /\ obs.old # NULL)
        => focusHolder_ = IF obs.y > 0
                          THEN WrapNext(Eligible(tree), obs.old)
                          ELSE WrapPrev(Eligible(tree), obs.old)

\* C5: no frame calls handleInputEvent or repaint through a null focus
\* holder, every frame completes, and a tree without eligible leaf keeps
\* the focus holder null.
C5_NoNullCall ==
    /\ ~obs.nullCall
    /\ ~halted
    /\ (obs.op = "update" /\ Len(Eligible(tree)) = 0) => focusHolder_ = NULL

\* C6: whenever the capture flag of the Screen is set, the focus holder is
\* not null.
C6_CapturedHasHolder ==
    focusHolderSelected_ => focusHolder_ # NULL

\* C7: after a frame in which a ScrollContainer scrolled, the focus holder
\* lies inside that container's viewport [top, top + height - 1].
C7_FocusInViewport ==
    obs.op = "update" =>
        \A c \in obs.scrolled :
            /\ focusHolder_ # NULL
            /\ y_[c] <= y_[focusHolder_]
            /\ y_[focusHolder_] <= y_[c] + tree.h[c] - 1

\* the rows of a row scene are the children of its ScrollContainer, node 3
Rows(T) == {T.kids[3][j] : j \in 1..Len(T.kids[3])}

\* C8: in a row scene, moving focus down one step per frame from no focus
\* visits the rows in order; the frame that focuses a row lying one below
\* the bottom edge shifts every row up by exactly 1, the frame that focuses
\* a row inside the viewport shifts nothing.
C8_RowScroll ==
    (tree \in RowScenes /\ obs.op = "update" /\ obs.downOnly /\ ~halted)
        => LET top == y_[3]
               bottom == y_[3] + tree.h[3] - 1
               f == focusHolder_
           IN /\ obs.old = NULL => f = tree.kids[3][1]
              /\ \A j \in 1..(Len(tree.kids[3]) - 1) :
                     obs.old = tree.kids[3][j] => f = tree.kids[3][j + 1]
              /\ (f \in Rows(tree) /\ obs.yBefore[f] = bottom + 1)
                     => \A r \in Rows(tree) : y_[r] = obs.yBefore[r] - 1
              /\ (f \in Rows(tree) /\ obs.yBefore[f] >= top
                                  /\ obs.yBefore[f] <= bottom)
                     => \A r \in Rows(tree) : y_[r] = obs.yBefore[r]

Descendants(T, c) == {k \in Nodes(T) : contains(T, c, k)}

LeafDescendants(T, c) == Descendants(T, c) \cap Leaves(T)

\* C9 as stated: right after repaint() on a container its dirty() is true,
\* and dirty() stays true until every descendant has been painted.
C9_DirtyUntilPainted ==
    /\ obs.target # NULL => dirty(tree, obs.target, St, focusHolder_)
    /\ (since.target # NULL /\ ~dirty(tree, since.target, St, focusHolder_))
           => Descendants(tree, since.target) \subseteq since.painted

\* C9 amended: right after repaint() on a container with at least one
\* non-container descendant its dirty() is true, and dirty() stays true
\* until every non-container descendant has been painted or has had its
\* flag cleared, unpainted, by a ScrollContainer whose viewport it is
\* outside of.
C9_DirtyUntilPaintedOrSkipped ==
    /\ (obs.target # NULL /\ LeafDescendants(tree, obs.target) # {})
           => dirty(tree, obs.target, St, focusHolder_)
    /\ (since.target # NULL /\ ~dirty(tree, since.target, St, focusHolder_))
           => LeafDescendants(tree, since.target)
                  \subseteq (since.painted \cup since.skipped)

\* a repainted container whose dirty() went back to false after some of its
\* leaves were painted and another one was skipped outside the viewport
C9_Witness ==
    /\ since.target # NULL
    /\ ~dirty(tree, since.target, St, focusHolder_)
    /\ LeafDescendants(tree, since.target) \cap since.painted # {}
    /\ (LeafDescendants(tree, since.target) \cap since.skipped)
           \ since.painted # {}

\* C10: in a state reached by a paint of the Screen, painting the Screen
\* again issues no draw call.
C10_PaintIdempotent ==
    (obs.op = "paint" \/ (obs.op = "update" /\ obs.target = NULL /\ ~halted))
        => paint(tree, 1, St, focusHolder_).draws = 0

\* a paint that drew nothing although a leaf is still marked dirty
C10_Witness ==
    /\ obs.op = "paint"
    /\ obs.draws = 0
    /\ obs.painted # {}
    /\ \E c \in Leaves(tree) : dirty_[c]

\* C11: after any sequence of add() calls the child count equals the number
\* of calls and the i-th child is the i-th component added, across every
\* growth of the backing array.
C11_AddKeepsOrder ==
    /\ ~store.oob
    /\ store.componentCount_ = Len(store.adds)
    /\ \A i \in 1..Len(store.adds) : store.components_[i] = store.adds[i]

Buttons(T) == {c \in Nodes(T) : T.kind[c] = "Button"}

\* C12: after a frame, pressed() of a Button is true exactly when the input
\* of that frame had selected set and the Button was the focus holder the
\* event went to; a press never carries over to the next frame.
C12_PressedOneFrame ==
    (obs.op = "update" /\ ~halted)
        => \A b \in Buttons(tree) :
               pressed_[b] <=> (obs.selected /\ obs.old = b /\ ev.calls = 1)

\* a frame that pressed one Button of a tree holding several
C12_Witness ==
    /\ obs.op = "update" /\ ~halted
    /\ \E b \in Buttons(tree) : pressed_[b]
    /\ \E b \in Buttons(tree) : ~pressed_[b]

Lists(T) == {c \in Nodes(T) : T.kind[c] = "List"}

Inputs(T) == {c \in Nodes(T) : T.kind[c] = "Input"}

clamp(v, lo, hi) == IF v < lo THEN lo ELSE IF v > hi THEN hi ELSE v

\* C13: a captured List that receives an event with cancelled set goes back
\* to the index it had when it was captured and releases control: the call
\* returns false and the Screen leaves the captured state.
C13_CancelResets ==
    (obs.op = "update" /\ ~halted /\ obs.old \in Lists(tree)
        /\ ev.capBefore /\ ev.cancelled)
        => /\ selectedIndex_[obs.old] = ev.atCapture[obs.old]
           /\ ~ev.ret
           /\ ~captured_[obs.old]
           /\ ~focusHolderSelected_

\* C14: the selected index of a List of n >= 1 items stays in [0, n-1]; a
\* frame with the List as focus holder sets the index to
\* clamp(index + dy, 0, n-1) when the List was captured, leaves it
\* unchanged when it was not, and toggles the capture when selected is set.
C14_ListIndexClamped ==
    /\ \A l \in Lists(tree) :
           tree.items[l] >= 1 =>
               selectedIndex_[l] \in 0..(tree.items[l] - 1)
    /\ (obs.op = "update" /\ ~halted /\ obs.old \in Lists(tree))
           => /\ selectedIndex_[obs.old] =
                     IF ev.capBefore /\ obs.y # 0
                     THEN clamp(ev.selBefore + obs.y, 0,
                                tree.items[obs.old] - 1)
                     ELSE ev.selBefore
              /\ captured_[obs.old] =
                     IF obs.selected THEN ~ev.capBefore ELSE ev.capBefore

\* a captured List moved by more than one step and stopped at its last item
C14_Witness ==
    /\ obs.op = "update" /\ ~halted /\ obs.old \in Lists(tree)
    /\ ev.capBefore /\ obs.y >= 2
    /\ ev.selBefore + obs.y > tree.items[obs.old] - 1
    /\ selectedIndex_[obs.old] = tree.items[obs.old] - 1

\* the ordering of a character set: its ranges one after the other.
\* WidthBefore(R, k) is the number of characters in the ranges before the
\* k-th one, so TotalWidth(R) is the sum of the inclusive widths
RECURSIVE WidthBefore(_, _)
WidthBefore(R, k) ==
    IF k <= 1 THEN 0
    ELSE WidthBefore(R, k - 1) + (R[k - 1][2] - R[k - 1][1] + 1)

TotalWidth(R) == WidthBefore(R, Len(R) + 1)

InSet(R, c) == \E k \in 1..Len(R) : R[k][1] <= c /\ c <= R[k][2]

\* the zero-based place of a character of the set in the ordering (the
\* first one, should the character lie in several ranges)
OrderIndex(R, c) ==
    LET k == CHOOSE k \in 1..Len(R) :
                 /\ R[k][1] <= c /\ c <= R[k][2]
                 /\ \A m \in 1..(k - 1) : ~(R[m][1] <= c /\ c <= R[m][2])
    IN WidthBefore(R, k) + (c - R[k][1])

\* the character at a zero-based place below TotalWidth(R)
OrderChar(R, i) ==
    LET k == CHOOSE k \in 1..Len(R) :
                 WidthBefore(R, k) <= i /\ i < WidthBefore(R, k + 1)
    IN R[k][1] + (i - WidthBefore(R, k))

\* C15: in the editing sub-state of an Input a vertical delta dy replaces
\* the character c under the cursor by the character at index
\* clamp(indexOf(c) + dy, 0, size - 1) of the default set's ordering ('0'
\* up once gives '1', '9' up once gives '!', the last character stays when
\* moved up), and the character under the cursor is a member of the set.
C15_EditFollowsCharSet ==
    (obs.op = "update" /\ ~halted /\ obs.old \in Inputs(tree)
        /\ ev.editBefore /\ obs.y # 0)
        => LET c == ev.chBefore
               new == text_[obs.old][ev.posBefore + 1]
           IN /\ InSet(defaultCharSet, c)
              /\ new = OrderChar(defaultCharSet,
                            clamp(OrderIndex(defaultCharSet, c) + obs.y,
                                  0, TotalWidth(defaultCharSet) - 1))
              /\ InSet(defaultCharSet, new)
              /\ (c = 48 /\ obs.y = 1) => new = 49
              /\ (c = 57 /\ obs.y = 1) => new = 33
              /\ (c = 126 /\ obs.y > 0) => new = 126
              /\ position_[obs.old] = ev.posBefore

\* an edit that moved '9' up once, across the end of the digit range
C15_Witness ==
    /\ obs.op = "update" /\ ~halted /\ obs.old \in Inputs(tree)
    /\ ev.editBefore /\ obs.y = 1 /\ ev.chBefore = 57
    /\ text_[obs.old][ev.posBefore + 1] = 33

\* C16: for a RangeCharSet built from any list of inclusive ranges and a
\* character c lying in one of them, indexOf(c) is in [0, size() - 1] and
\* charAt(indexOf(c)) = c; size() is the sum of the inclusive widths.
C16_CharSetRoundTrip ==
    /\ (cset.op = "indexOf" /\ InSet(cset.ranges, cset.ch))
           => /\ cset.res \in 0..(size(cset.ranges) - 1)
              /\ cset.back = cset.ch
    /\ cset.op # "none" => size(cset.ranges) = TotalWidth(cset.ranges)

\* C17: for every RangeCharSet, indexOf(charAt(i)) = i for each index i in
\* 0..size() - 1, and indexOf(c) = -1 for a character c in none of the
\* ranges.
C17_CharSetInverse ==
    /\ (cset.op = "charAt" /\ cset.index \in 0..(size(cset.ranges) - 1))
           => cset.back = cset.index
    /\ (cset.op = "indexOf" /\ ~InSet(cset.ranges, cset.ch))
           => cset.res = -1

\* C18: in a frame with input taken while the Screen is captured, or while
\* it is idle with selected set, the event goes exactly once to the focus
\* holder's handleInputEvent, the capture state after the frame is the value
\* that call returned, and the focus holder is the same after the frame.
C18_ForwardedOnce ==
    (obs.op = "update" /\ ev.input /\ (obs.wasSelected \/ obs.selected))
        => /\ ~halted
           /\ ev.calls = 1
           /\ obs.old # NULL
           /\ focusHolderSelected_ = ev.ret
           /\ focusHolder_ = obs.old

Kids(T, c) == {T.kids[c][j] : j \in 1..Len(T.kids[c])}

\* C19: a scroll taken because the focus holder lies below the bottom edge
\* shifts every child of the ScrollContainer by (bottom - y) and leaves the
\* focus holder on the bottom edge; one taken because it lies above the top
\* edge shifts every child by (top - y) and leaves it on the top edge; a
\* paint shifts nothing when the focus holder is inside the viewport, is no
\* descendant of the container, or is the holder recorded at the previous
\* scroll.
C19_ShiftAmount ==
    (obs.op = "update" /\ ~halted)
        => \A c \in Scrolls(tree) :
               LET top == obs.yBefore[c]
                   bottom == obs.yBefore[c] + tree.h[c] - 1
                   f == focusHolder_
               IN /\ (c \in obs.scrolled /\ obs.yBefore[f] > bottom)
                         => /\ \A k \in Kids(tree, c) :
                                   y_[k] = obs.yBefore[k]
                                               + (bottom - obs.yBefore[f])
                            /\ y_[f] = bottom
                  /\ (c \in obs.scrolled /\ obs.yBefore[f] < top)
                         => /\ \A k \in Kids(tree, c) :
                                   y_[k] = obs.yBefore[k]
                                               + (top - obs.yBefore[f])
                            /\ y_[f] = top
                  /\ (\/ f = NULL
                      \/ ~contains(tree, c, f)
                      \/ (top <= obs.yBefore[f] /\ obs.yBefore[f] <= bottom)
                      \/ ev.lastBefore[c] = f)
                         => /\ c \notin obs.scrolled
                            /\ \A k \in Kids(tree, c) :
                                   y_[k] = obs.yBefore[k]

\* C20: a paint of a ScrollContainer paints no descendant that lies outside
\* [top, top + height - 1]; such a descendant has its dirty flag cleared
\* without being drawn, and dirty() of the ScrollContainer is false after
\* the paint (observed after a host paint, or after a frame that ends with
\* its paint, which every frame but the first one does).
C20_NoPaintOutsideViewport ==
    ((obs.op = "paint" \/ (obs.op = "update" /\ obs.target = NULL))
        /\ ~halted)
        => \A c \in Scrolls(tree) \cap obs.painted :
               /\ \A k \in LeafDescendants(tree, c) :
                      (y_[k] < y_[c] \/ y_[k] > y_[c] + tree.h[c] - 1)
                          => (k \notin obs.painted /\ ~dirty_[k])
               /\ ~dirty(tree, c, St, focusHolder_)

\* the container a component was added to (NULL for the Screen)
Parent(T, c) ==
    IF \E p \in Nodes(T) : c \in Kids(T, p)
    THEN CHOOSE p \in Nodes(T) : c \in Kids(T, p)
    ELSE NULL

\* the y given to add() plus the add-time y of every ancestor
RECURSIVE Placed(_, _)
Placed(T, c) ==
    IF Parent(T, c) = NULL THEN T.addY[c]
    ELSE Int8(T.addY[c] + Placed(T, Parent(T, c)))

\* C21: the first Screen::update that scrolls nothing leaves every component
\* at the y given to add() plus the add-time y of all its ancestors; a
\* later update that scrolls nothing leaves every position as it was.
C21_DeferredPlacement ==
    [][(obs'.op = "update" /\ ~halted' /\ obs'.scrolled = {})
          => IF ~annoyingBugWorkedAround_
             THEN \A c \in Nodes(tree) : y_'[c] = Placed(tree, c)
             ELSE y_' = y_]_vars

\* a component that no ScrollContainer above it clips: its row lies inside
\* the viewport of every ScrollContainer that contains it
Visible(T, c, yv) ==
    \A a \in Scrolls(T) :
        contains(T, a, c)
            => (yv[c] >= yv[a] /\ yv[c] <= yv[a] + T.h[a] - 1)

\* C22: in a frame that ends with another focus holder than it began with,
\* the old holder (if any) and the new holder are dirty when the paint of
\* the frame begins, and each of them that no viewport clips is painted in
\* that frame.
C22_FocusChangeRepaints ==
    (obs.op = "update" /\ ~halted /\ focusHolder_ # obs.old)
        => \A c \in {obs.old, focusHolder_} \ {NULL} :
               /\ c \in ev.marked
               /\ Visible(tree, c, y_) => c \in obs.painted

\* C23 as stated: an event that reaches a captured Input in its navigating
\* sub-state and moves the cursor below 0 or to width or beyond releases
\* the capture, whatever selected and cancelled are; one that keeps the
\* cursor inside keeps the capture.
C23_EdgeReleases ==
    (/\ obs.op = "update" /\ ~halted /\ ev.calls = 1
     /\ obs.old \in Inputs(tree) /\ ev.capBefore /\ ~ev.editBefore)
        => LET c == obs.old
               pos == ev.posBefore + obs.y
           IN IF pos < 0 \/ pos >= Len(tree.text[c])
              THEN ~captured_[c] /\ ~ev.ret /\ ~focusHolderSelected_
              ELSE captured_[c] /\ ev.ret /\ focusHolderSelected_

\* C23, amended: such an event releases the capture when selected is not
\* set, whatever cancelled is; with selected set the Input is captured
\* again by the same event, navigating with the cursor at 0.  An event
\* that keeps the cursor inside keeps the capture and moves the cursor.
C23_EdgeReleasesUnlessSelected ==
    (/\ obs.op = "update" /\ ~halted /\ ev.calls = 1
     /\ obs.old \in Inputs(tree) /\ ev.capBefore /\ ~ev.editBefore)
        => LET c == obs.old
               pos == ev.posBefore + obs.y
           IN IF pos < 0 \/ pos >= Len(tree.text[c])
              THEN IF obs.selected
                   THEN /\ captured_[c] /\ ev.ret /\ focusHolderSelected_
                        /\ position_[c] = 0 /\ ~selecting_[c]
                   ELSE ~captured_[c] /\ ~ev.ret /\ ~focusHolderSelected_
              ELSE /\ captured_[c] /\ ev.ret /\ focusHolderSelected_
                   /\ position_[c] = pos

\* a cancelled event moved the cursor from the last character past the
\* right edge and released the Input
C23_Witness ==
    /\ obs.op = "update" /\ ~halted /\ ev.calls = 1
    /\ obs.old \in Inputs(tree) /\ ev.capBefore /\ ~ev.editBefore
    /\ ev.posBefore = Len(tree.text[obs.old]) - 1 /\ ev.posBefore > 0
    /\ obs.y > 0 /\ ev.cancelled /\ ~obs.selected
    /\ ~captured_[obs.old] /\ ~focusHolderSelected_

\* C24 as stated: a frame that polls cancelled while a focus holder exists
\* calls the holder's handleInputEvent with cancelled = true.
C24_CancelForwarded ==
    (obs.op = "update" /\ ~halted /\ ev.cancelPolled /\ obs.old # NULL)
        => (ev.calls = 1 /\ ev.cancelled)

\* C24, amended: such a frame calls the holder's handleInputEvent, with
\* cancelled = true, exactly when the Screen is captured or selected is
\* polled with it; an idle frame without selected makes no call.
C24_CancelForwardedWhenCaptured ==
    (obs.op = "update" /\ ~halted /\ ev.cancelPolled /\ obs.old # NULL)
        => IF obs.wasSelected \/ obs.selected
           THEN ev.calls = 1 /\ ev.cancelled
           ELSE ev.calls = 0 /\ ~ev.cancelled

\* a captured holder received a frame whose only input was cancelled
C24_Witness ==
    /\ obs.op = "update" /\ ~halted /\ ev.cancelPolled /\ obs.old # NULL
    /\ obs.wasSelected /\ ~obs.selected /\ obs.y = 0
    /\ ev.calls = 1 /\ ev.cancelled

\* C25: a frame without input that follows at least two completed frames
\* issues no draw call and no clear, and leaves the focus holder, the
\* capture state and every position as they were.
C25_IdleFrameDrawsNothing ==
    [][(/\ obs.op = "update" /\ obs.target = NULL /\ ~halted
        /\ obs'.op = "update" /\ ~ev'.input)
          => /\ obs'.draws = 0
             /\ obs'.clears = 0
             /\ focusHolder_' = focusHolder_
             /\ focusHolderSelected_' = focusHolderSelected_
             /\ y_' = y_]_vars

\* a frame without input drew nothing on a Screen with a dirty-free
\* visible leaf that an earlier frame had painted
C25_Witness ==
    /\ obs.op = "update" /\ ~halted /\ ~ev.input /\ obs.target = NULL
    /\ obs.draws = 0 /\ obs.clears = 0
    /\ focusHolder_ # NULL
    /\ \E k \in Kids(tree, 1) : ~isContainer(tree, k) /\ ~dirty_[k]

\* C26: after a paint of a Label, whatever setText calls came before it, no
\* cell beyond the end of the text holds a character of an earlier text;
\* a paint that follows a paint writes no blank.
C26_LeftoverBlanked ==
    label.op = "paint"
        => /\ \A j \in DOMAIN label.cells :
                  j - 1 >= label.width_ + (IF label.focus THEN 1 ELSE 0)
                      => label.cells[j] # "t"
           /\ label.prev = "paint" => label.blanks = 0

\* C27: the paint of a frame adds one and the same delta to the y of every
\* child of a ScrollContainer (none when it does not scroll), so the
\* distance between two children stays what add() made it, and leaves the
\* y of the ScrollContainer itself as it was.
C27_UniformShift ==
    (obs.op = "update" /\ ~halted)
        => \A c \in Scrolls(tree) :
               /\ y_[c] = obs.yBefore[c]
               /\ \E d \in (-128)..127 :
                      /\ c \notin obs.scrolled => d = 0
                      /\ \A k \in Kids(tree, c) : y_[k] = obs.yBefore[k] + d
               /\ \A k1, k2 \in Kids(tree, c) :
                      y_[k1] - y_[k2] = tree.addY[k1] - tree.addY[k2]

\* a scroll by a non-zero delta of a ScrollContainer that had been
\* scrolled before and has several children
C27_Witness ==
    /\ obs.op = "update" /\ ~halted
    /\ \E c \in Scrolls(tree) \cap obs.scrolled :
           /\ obs.shift[c] # 0
           /\ Cardinality(Kids(tree, c)) >= 3
           /\ \A k \in Kids(tree, c) :
                  /\ y_[k] = obs.yBefore[k] + obs.shift[c]
                  /\ y_[k] # tree.addY[k] + y_[c] + obs.shift[c]
                  /\ y_[k] # tree.addY[k] + y_[c]

Checkboxes(T) == {c \in Nodes(T) : T.kind[c] = "Checkbox"}

\* C28: after every frame the capture flag of the Screen is set exactly
\* when the focus holder's own captured_ is set, no other component has
\* captured_ set, and no Button or Checkbox ever has.
C28_CaptureConsistent ==
    (obs.op = "update" /\ ~halted)
        => /\ focusHolderSelected_
                 <=> (focusHolder_ # NULL /\ captured_[focusHolder_])
           /\ \A c \in Leaves(tree) \ {focusHolder_} : ~captured_[c]
           /\ \A c \in Buttons(tree) \cup Checkboxes(tree) : ~captured_[c]

\* C29: after every completed frame on a tree with a focus-eligible leaf
\* the focus holder is one of the eligible leaves of the tree (so it is
\* not NULL, not a container and accepts focus), frame after frame.
C29_FocusResolved ==
    (obs.op = "update" /\ ~halted /\ EligibleSet(tree) # {})
        => focusHolder_ \in EligibleSet(tree)

\* an idle frame polled a move backwards from the first eligible leaf,
\* where the reverse search runs off the start of the tree
C29_Witness ==
    /\ obs.op = "update" /\ ~halted
    /\ Len(Eligible(tree)) >= 2
    /\ obs.old = Eligible(tree)[1]
    /\ obs.y < 0 /\ ~obs.wasSelected /\ ~obs.selected
    /\ focusHolder_ \in EligibleSet(tree)

\* C30: k consecutive idle frames that move the focus in one direction,
\* k being the number of focus-eligible leaves, make every eligible leaf
\* the focus holder exactly once.
C30_EveryLeafReached ==
    (reach.on /\ reach.dir # 0 /\ Len(reach.seq) = Len(Eligible(tree)))
        => /\ {reach.seq[j] : j \in 1..Len(reach.seq)} = EligibleSet(tree)
           /\ \A i, j \in 1..Len(reach.seq) :
                  reach.seq[i] = reach.seq[j] => i = j

====
